---- MODULE Spec2Model ----
(***************************************************************************)
(* The trip creation form (TripModal, in its two variants) and the         *)
(* identity session manager (AuthProvider) of the MapSync front end.       *)
(*                                                                         *)
(* Text is a sequence of one-character strings, so that trim(), the        *)
(* suggestion templates and substring tests are computed, not assumed.     *)
(* React state is one variable per useState cell.  React re-renders at     *)
(* the end of every DOM event and of every promise continuation, so every  *)
(* UI event reads the state its predecessor left; an event is enabled      *)
(* when the element that dispatches it is rendered and not disabled.       *)
(***************************************************************************)
EXTENDS Integers, Sequences, FiniteSets, TLC

VARIABLES
  variant,         \* "http": unnamed/part_000, "delegated": components/TripModal.tsx
  tripName, destination, stops, newStop,
  isLoading, error, suggestions, currentLocation,
  shareableLink, showShareView,
  geo,             \* the geolocation request of the mount effect
  inflight,        \* the handleSubmit invocations suspended at an await
  closed,          \* onClose() has been called
  navigatedTo,     \* the route handed to navigate(), or Null
  sent,            \* the creation requests issued by the last step
  ev,              \* the last handler that ran, with its argument
  currentUser, loading,          \* AuthProvider's state
  authUser,        \* the identity provider's own session
  notifications,   \* onAuthStateChanged notifications not yet delivered
  notified,        \* some notification has been delivered
  loginCall, logoutCall,         \* the promise of the last login() / logout()
  cachedUser       \* localStorage holds the key 'user'

formVars == <<variant, tripName, destination, stops, newStop, isLoading, error,
              suggestions, currentLocation, shareableLink, showShareView, geo,
              inflight, closed, navigatedTo, sent>>
authVars == <<currentUser, loading, authUser, notifications, notified,
              loginCall, logoutCall, cachedUser>>
vars == <<formVars, authVars, ev>>

-----------------------------------------------------------------------------
(* Bounds and input sets *)

MaxStops == 2
MaxNotifications == 2
\* The invocations of handleSubmit that can be suspended at once when the handler
\* is invoked past the disabled submit button.
MaxInflight == 2

Null == [null |-> TRUE]

\* What the user can type into the trip name, destination and stop inputs.
NameInputs == {<<>>, <<"a">>}
DestInputs == {<<>>, <<" ">>, <<"a">>}
StopInputs == {<<>>, <<" ">>, <<" ", "a">>, <<"b">>}

\* What getCurrentPosition can report (position.coords carries more than lat/lng).
Positions == {[latitude |-> 40, longitude |-> -74, accuracy |-> 10]}

\* The users the identity provider can sign in.
FirebaseUsers ==
  {[uid |-> "u1", displayName |-> "Ann", email |-> "ann@example.com",
    photoURL |-> "ann.png", emailVerified |-> TRUE]}

\* Response bodies of POST /newtrip that parse, and the ids createTrip resolves to.
Bodies == {[shareLink |-> "https://mapsync/t1", tripId |-> "t1"],
           [shareLink |-> "https://mapsync/t2", tripId |-> "t2"]}
TripIds == {"t1", "t2"}
\* The errors signInWithPopup and signOut can reject with.
SignInErrors == {"auth/popup-closed-by-user", "auth/network-request-failed"}
SignOutErrors == {"auth/network-request-failed", "auth/internal-error"}

-----------------------------------------------------------------------------
(* Text *)

IsSpace(c) == c = " "

RECURSIVE TrimStart(_)
TrimStart(s) ==
  IF s # <<>> /\ IsSpace(Head(s)) THEN TrimStart(Tail(s)) ELSE s

RECURSIVE TrimEnd(_)
TrimEnd(s) ==
  IF s # <<>> /\ IsSpace(s[Len(s)]) THEN TrimEnd(SubSeq(s, 1, Len(s) - 1)) ELSE s

\* A trim that removes nothing.
TrimNothing(s) == s

\* String.prototype.trim
Trim(s) == TrimEnd(TrimStart(s))

\* part occurs in s as a substring.
Includes(s, part) ==
  \E i \in 1..(Len(s) - Len(part) + 1) : SubSeq(s, i, i + Len(part) - 1) = part

ValidationMessage ==
  "Please fill in all required fields and ensure location services are enabled"
LocationMessage ==
  "Unable to get your current location. Please enable location services."
FailedMessage == "Failed to create trip. Please try again."

NewYorkSuffix == <<",", " ", "N", "e", "w", " ", "Y", "o", "r", "k", ",", " ", "U", "S", "A">>
CaliforniaSuffix == <<",", " ", "C", "a", "l", "i", "f", "o", "r", "n", "i", "a", ",", " ", "U", "S", "A">>
TexasSuffix == <<",", " ", "T", "e", "x", "a", "s", ",", " ", "U", "S", "A">>

\* A lookup that never finds a candidate.
NoSuggestions(input) == <<>>

\* The list getPlaceSuggestions hands to setSuggestions.
MockSuggestions(input) ==
  IF Trim(input) = <<>> THEN <<>>
  ELSE << [description |-> input \o NewYorkSuffix, place_id |-> "1"],
          [description |-> input \o CaliforniaSuffix, place_id |-> "2"],
          [description |-> input \o TexasSuffix, place_id |-> "3"] >>

-----------------------------------------------------------------------------
(* Lists *)

\* A removal by text: stops.filter(s => s !== stops[index])
RemoveByText(list, index) ==
  IF index + 1 \in DOMAIN list
  THEN LET RECURSIVE Drop(_)
           Drop(l) == IF l = <<>> THEN <<>>
                      ELSE IF Head(l) = list[index + 1] THEN Drop(Tail(l))
                      ELSE <<Head(l)>> \o Drop(Tail(l))
       IN Drop(list)
  ELSE list

\* stops.filter((_, i) => i !== index), index counted from 0
RemoveAt(list, index) ==
  LET keep == {i \in DOMAIN list : i - 1 # index}
      RECURSIVE Build(_)
      Build(i) == IF i > Len(list) THEN <<>>
                  ELSE IF i \in keep THEN <<list[i]>> \o Build(i + 1)
                  ELSE Build(i + 1)
  IN Build(1)

-----------------------------------------------------------------------------
(* The creation request *)

Zero == [lat |-> 0, lng |-> 0]

\* The values mockCoordinates can return (37.7749 + [0,5), -122.4194 + [0,5)).
MockCoordinates == {[lat |-> 38, lng |-> -122], [lat |-> 42, lng |-> -118]}

\* A creator that ignores the session.
CreatedByFallbackOnly(user, fallback) == fallback

\* currentUser?.uid || fallback
CreatedBy(user, fallback) ==
  IF user = Null THEN fallback
  ELSE IF user.uid = "" THEN fallback ELSE user.uid

Origin(loc) == [name |-> "Current Location", location |-> loc]

\* tripData of unnamed/part_000, the body of POST /newtrip
HttpTripData(name, dest, stopList, loc, user) ==
  [ name        |-> name,
    origin      |-> Origin(loc),
    destination |-> [name |-> dest, location |-> Zero],
    stops       |-> [i \in DOMAIN stopList |->
                       [name |-> stopList[i], location |-> Zero]],
    createdBy   |-> CreatedBy(user, "") ]

\* tripData of components/TripModal.tsx, the argument of createTrip;
\* coords[0] is the destination's mock coordinate, coords[i] the i-th stop's.
DelegatedTripData(name, dest, stopList, loc, user, coords) ==
  [ name         |-> name,
    origin       |-> Origin(loc),
    destination  |-> [name |-> dest, location |-> coords[0]],
    stops        |-> [i \in DOMAIN stopList |->
                        [id       |-> [prefix |-> "stop", index |-> i - 1],
                         name     |-> stopList[i],
                         location |-> coords[i]]],
    participants |-> <<CreatedBy(user, "user123")>>,
    createdBy    |-> CreatedBy(user, "user123") ]

-----------------------------------------------------------------------------
(* The form's handlers *)

Ev(op, arg) == [op |-> op, arg |-> arg]

\* A form that stays rendered whatever happens.
FormShownAlways == TRUE

\* The <form> is rendered: the modal is open and the share view does not replace it.
FormShown == ~closed /\ ~showShareView

\* onChange of the trip name input
SetTripName(value) ==
  /\ tripName' = value
  /\ sent' = <<>>
  /\ ev' = Ev("setTripName", value)
  /\ UNCHANGED <<variant, destination, stops, newStop, isLoading, error, suggestions,
                 currentLocation, shareableLink, showShareView, geo, inflight,
                 closed, navigatedTo, authVars>>

handleDestinationChange(value) ==
  /\ destination' = value
  /\ suggestions' = MockSuggestions(value)
  /\ sent' = <<>>
  /\ ev' = Ev("handleDestinationChange", value)
  /\ UNCHANGED <<variant, tripName, stops, newStop, isLoading, error,
                 currentLocation, shareableLink, showShareView, geo, inflight,
                 closed, navigatedTo, authVars>>

handleSuggestionClick(suggestion) ==
  /\ destination' = suggestion.description
  /\ suggestions' = <<>>
  /\ sent' = <<>>
  /\ ev' = Ev("handleSuggestionClick", suggestion)
  /\ UNCHANGED <<variant, tripName, stops, newStop, isLoading, error,
                 currentLocation, shareableLink, showShareView, geo, inflight,
                 closed, navigatedTo, authVars>>

\* onChange of the stop input
SetNewStop(value) ==
  /\ newStop' = value
  /\ sent' = <<>>
  /\ ev' = Ev("setNewStop", value)
  /\ UNCHANGED <<variant, tripName, destination, stops, isLoading, error, suggestions,
                 currentLocation, shareableLink, showShareView, geo, inflight,
                 closed, navigatedTo, authVars>>

handleAddStop ==
  /\ IF Trim(newStop) # <<>>
     THEN /\ stops' = Append(stops, Trim(newStop))
          /\ newStop' = <<>>
     ELSE UNCHANGED <<stops, newStop>>
  /\ sent' = <<>>
  /\ ev' = Ev("handleAddStop", Null)
  /\ UNCHANGED <<variant, tripName, destination, isLoading, error, suggestions,
                 currentLocation, shareableLink, showShareView, geo, inflight,
                 closed, navigatedTo, authVars>>

handleRemoveStop(index) ==
  /\ stops' = RemoveAt(stops, index)
  /\ sent' = <<>>
  /\ ev' = Ev("handleRemoveStop", index)
  /\ UNCHANGED <<variant, tripName, destination, newStop, isLoading, error, suggestions,
                 currentLocation, shareableLink, showShareView, geo, inflight,
                 closed, navigatedTo, authVars>>

\* A validation of the name alone.
DraftValidNameOnly == tripName # <<>>

\* The fields handleSubmit requires.
DraftValid == tripName # <<>> /\ destination # <<>> /\ currentLocation # Null

\* The requests one valid handleSubmit can build.
TripDataChoices ==
  IF variant = "http"
  THEN {HttpTripData(tripName, destination, stops, currentLocation, currentUser)}
  ELSE {DelegatedTripData(tripName, destination, stops, currentLocation, currentUser, c) :
          c \in [0..Len(stops) -> MockCoordinates]}

\* The await a new invocation is suspended at.
FirstAwait == IF variant = "http" THEN "fetch" ELSE "createTrip"

\* handleSubmit without its setError('').
handleSubmitKeepsError ==
  /\ IF ~DraftValid
     THEN /\ error' = ValidationMessage
          /\ sent' = <<>>
          /\ UNCHANGED <<isLoading, inflight>>
     ELSE /\ isLoading' = TRUE
          /\ error' = error
          /\ \E data \in TripDataChoices : sent' = <<data>>
          /\ inflight' = Append(inflight, [await |-> FirstAwait])
  /\ ev' = Ev("handleSubmit", Null)
  /\ UNCHANGED <<variant, tripName, destination, stops, newStop, suggestions,
                 currentLocation, shareableLink, showShareView, geo,
                 closed, navigatedTo, authVars>>

handleSubmit ==
  /\ IF ~DraftValid
     THEN /\ error' = ValidationMessage
          /\ sent' = <<>>
          /\ UNCHANGED <<isLoading, inflight>>
     ELSE /\ isLoading' = TRUE
          /\ error' = ""
          /\ \E data \in TripDataChoices : sent' = <<data>>
          /\ inflight' = Append(inflight, [await |-> FirstAwait])
  /\ ev' = Ev("handleSubmit", Null)
  /\ UNCHANGED <<variant, tripName, destination, stops, newStop, suggestions,
                 currentLocation, shareableLink, showShareView, geo,
                 closed, navigatedTo, authVars>>

-----------------------------------------------------------------------------
(* The continuations of handleSubmit *)

Settled(i) == RemoveAt(inflight, i - 1)

\* The catch block without the finally block.
CatchWithoutFinally(i, op, why) ==
  /\ error' = FailedMessage
  /\ inflight' = Settled(i)
  /\ sent' = <<>>
  /\ ev' = Ev(op, why)
  /\ UNCHANGED <<variant, tripName, destination, stops, newStop, suggestions, isLoading,
                 currentLocation, shareableLink, showShareView, geo,
                 closed, navigatedTo, authVars>>

\* catch (err) { setError(...) } finally { setIsLoading(false) }
CatchFinally(i, op, why) ==
  /\ error' = FailedMessage
  /\ isLoading' = FALSE
  /\ inflight' = Settled(i)
  /\ sent' = <<>>
  /\ ev' = Ev(op, why)
  /\ UNCHANGED <<variant, tripName, destination, stops, newStop, suggestions,
                 currentLocation, shareableLink, showShareView, geo,
                 closed, navigatedTo, authVars>>

\* await fetch(...) rejects, or resolves to a response whose ok is false and
\* handleSubmit throws
FetchFails(i, why) ==
  /\ i \in DOMAIN inflight /\ inflight[i].await = "fetch"
  /\ CatchFinally(i, "fetch", why)

\* await fetch(...) resolves to a response whose ok is true
FetchOk(i) ==
  /\ i \in DOMAIN inflight /\ inflight[i].await = "fetch"
  /\ inflight' = [inflight EXCEPT ![i] = [await |-> "json"]]
  /\ sent' = <<>>
  /\ ev' = Ev("fetch", "ok")
  /\ UNCHANGED <<variant, tripName, destination, stops, newStop, isLoading, error,
                 suggestions, currentLocation, shareableLink, showShareView, geo,
                 closed, navigatedTo, authVars>>

\* await response.json() rejects
JsonFails(i) ==
  /\ i \in DOMAIN inflight /\ inflight[i].await = "json"
  /\ CatchFinally(i, "json", "rejected")

\* A continuation that takes the link from the body's tripId.
JsonOkTripId(i, body) ==
  /\ i \in DOMAIN inflight /\ inflight[i].await = "json"
  /\ shareableLink' = body.tripId
  /\ showShareView' = TRUE
  /\ isLoading' = FALSE
  /\ inflight' = Settled(i)
  /\ sent' = <<>>
  /\ ev' = Ev("json", body)
  /\ UNCHANGED <<variant, tripName, destination, stops, newStop, error, suggestions,
                 currentLocation, geo, closed, navigatedTo, authVars>>

\* await response.json() resolves: the share view is shown
JsonOk(i, body) ==
  /\ i \in DOMAIN inflight /\ inflight[i].await = "json"
  /\ shareableLink' = body.shareLink
  /\ showShareView' = TRUE
  /\ isLoading' = FALSE
  /\ inflight' = Settled(i)
  /\ sent' = <<>>
  /\ ev' = Ev("json", body)
  /\ UNCHANGED <<variant, tripName, destination, stops, newStop, error, suggestions,
                 currentLocation, geo, closed, navigatedTo, authVars>>

\* await createTrip(tripData) rejects
CreateTripFails(i) ==
  /\ i \in DOMAIN inflight /\ inflight[i].await = "createTrip"
  /\ CatchFinally(i, "createTrip", "rejected")

\* await createTrip(tripData) resolves: onClose(), navigate(`/trip/${tripId}`)
CreateTripOk(i, tripId) ==
  /\ i \in DOMAIN inflight /\ inflight[i].await = "createTrip"
  /\ closed' = TRUE
  /\ navigatedTo' = [path |-> "/trip/", id |-> tripId]
  /\ isLoading' = FALSE
  /\ inflight' = Settled(i)
  /\ sent' = <<>>
  /\ ev' = Ev("createTrip", "ok")
  /\ UNCHANGED <<variant, tripName, destination, stops, newStop, error, suggestions,
                 currentLocation, shareableLink, showShareView, geo, authVars>>

-----------------------------------------------------------------------------
(* Geolocation and closing *)

\* The success callback of getCurrentPosition
GeoSuccess(position) ==
  /\ geo = "pending"
  /\ geo' = "done"
  /\ currentLocation' = [lat |-> position.latitude, lng |-> position.longitude]
  /\ sent' = <<>>
  /\ ev' = Ev("geoSuccess", Null)
  /\ UNCHANGED <<variant, tripName, destination, stops, newStop, isLoading, error,
                 suggestions, shareableLink, showShareView, inflight,
                 closed, navigatedTo, authVars>>

\* An error callback that falls back to a default position.
GeoErrorFallsBack ==
  /\ geo = "pending"
  /\ geo' = "failed"
  /\ error' = LocationMessage
  /\ currentLocation' = [lat |-> 0, lng |-> 0]
  /\ sent' = <<>>
  /\ ev' = Ev("geoError", Null)
  /\ UNCHANGED <<variant, tripName, destination, stops, newStop, isLoading,
                 suggestions, shareableLink, showShareView, inflight,
                 closed, navigatedTo, authVars>>

\* The error callback of getCurrentPosition
GeoError ==
  /\ geo = "pending"
  /\ geo' = "failed"
  /\ error' = LocationMessage
  /\ sent' = <<>>
  /\ ev' = Ev("geoError", Null)
  /\ UNCHANGED <<variant, tripName, destination, stops, newStop, isLoading,
                 suggestions, currentLocation, shareableLink, showShareView, inflight,
                 closed, navigatedTo, authVars>>

\* The X and Cancel buttons: onClick={onClose}
Close ==
  /\ closed' = TRUE
  /\ sent' = <<>>
  /\ ev' = Ev("onClose", Null)
  /\ UNCHANGED <<variant, tripName, destination, stops, newStop, isLoading, error,
                 suggestions, currentLocation, shareableLink, showShareView, geo,
                 inflight, navigatedTo, authVars>>

-----------------------------------------------------------------------------
(* AuthProvider *)

\* The snapshot AuthProvider keeps of a provider user.
Snapshot(user) ==
  [uid |-> user.uid, displayName |-> user.displayName,
   email |-> user.email, photoURL |-> user.photoURL]

\* {!loading && children}
ChildrenRendered == ~loading

\* The callback handed to onAuthStateChanged
OnAuthStateChanged(user) ==
  /\ currentUser' = IF user # Null THEN Snapshot(user) ELSE Null
  /\ loading' = FALSE
  /\ notified' = TRUE
  /\ ev' = Ev("onAuthStateChanged", user)

\* The provider delivers its oldest pending notification.
Notify ==
  /\ notifications # <<>>
  /\ OnAuthStateChanged(Head(notifications))
  /\ notifications' = Tail(notifications)
  /\ UNCHANGED <<formVars, authUser, loginCall, logoutCall, cachedUser>>

Call(state, result) == [state |-> state, result |-> result]

\* The notifications the provider queues when its session becomes `user`.
Queued(user) ==
  IF user # authUser THEN Append(notifications, user) ELSE notifications

\* login() is called: signInWithPopup opens.
Login ==
  /\ loginCall.state # "pending" /\ loginCall.state # "signedIn"
  /\ loginCall' = Call("pending", Null)
  /\ ev' = Ev("login", "called")
  /\ UNCHANGED <<formVars, currentUser, loading, authUser, notifications, notified,
                 logoutCall, cachedUser>>

\* The provider completes the sign-in and queues its notification.
SignInDone(user) ==
  /\ loginCall.state = "pending"
  /\ Len(Queued(user)) <= MaxNotifications
  /\ authUser' = user
  /\ notifications' = Queued(user)
  /\ loginCall' = Call("signedIn", user)
  /\ ev' = Ev("signInWithPopup", "done")
  /\ UNCHANGED <<formVars, currentUser, loading, notified, logoutCall, cachedUser>>

\* A login() that also calls setLoading(false).
LoginResolvesUnlocks ==
  /\ loginCall.state = "signedIn"
  /\ currentUser' = Snapshot(loginCall.result)
  /\ loading' = FALSE
  /\ loginCall' = Call("resolved", Null)
  /\ ev' = Ev("login", "resolved")
  /\ UNCHANGED <<formVars, authUser, notifications, notified, logoutCall, cachedUser>>

\* await signInWithPopup(...) resolves: setCurrentUser(snapshot of result.user)
LoginResolves ==
  /\ loginCall.state = "signedIn"
  /\ currentUser' = Snapshot(loginCall.result)
  /\ loginCall' = Call("resolved", Null)
  /\ ev' = Ev("login", "resolved")
  /\ UNCHANGED <<formVars, loading, authUser, notifications, notified,
                 logoutCall, cachedUser>>

\* signInWithPopup rejects with `thrown` (provider error, popup closed): login()
\* logs it and rethrows it.
LoginRejects(thrown) ==
  /\ loginCall.state = "pending"
  /\ loginCall' = Call("rejected", thrown)
  /\ ev' = Ev("login", thrown)
  /\ UNCHANGED <<formVars, currentUser, loading, authUser, notifications, notified,
                 logoutCall, cachedUser>>

\* logout() is called: signOut starts.
Logout ==
  /\ logoutCall.state # "pending" /\ logoutCall.state # "signedOut"
  /\ logoutCall' = Call("pending", Null)
  /\ ev' = Ev("logout", "called")
  /\ UNCHANGED <<formVars, currentUser, loading, authUser, notifications, notified,
                 loginCall, cachedUser>>

\* The provider completes the sign-out and queues its notification.
SignOutDone ==
  /\ logoutCall.state = "pending"
  /\ Len(Queued(Null)) <= MaxNotifications
  /\ authUser' = Null
  /\ notifications' = Queued(Null)
  /\ logoutCall' = Call("signedOut", Null)
  /\ ev' = Ev("signOut", "done")
  /\ UNCHANGED <<formVars, currentUser, loading, notified, loginCall, cachedUser>>

\* A logout() without its setCurrentUser(null).
LogoutResolvesKeepsUser ==
  /\ logoutCall.state = "signedOut"
  /\ cachedUser' = FALSE
  /\ logoutCall' = Call("resolved", Null)
  /\ ev' = Ev("logout", "resolved")
  /\ UNCHANGED <<formVars, currentUser, loading, authUser, notifications, notified,
                 loginCall>>

\* await signOut(auth) resolves: setCurrentUser(null), localStorage.removeItem('user')
LogoutResolves ==
  /\ logoutCall.state = "signedOut"
  /\ currentUser' = Null
  /\ cachedUser' = FALSE
  /\ logoutCall' = Call("resolved", Null)
  /\ ev' = Ev("logout", "resolved")
  /\ UNCHANGED <<formVars, loading, authUser, notifications, notified, loginCall>>

\* A logout() that clears the session in a finally block.
LogoutRejectsClears(thrown) ==
  /\ logoutCall.state = "pending"
  /\ logoutCall' = Call("rejected", thrown)
  /\ currentUser' = Null
  /\ cachedUser' = FALSE
  /\ ev' = Ev("logout", thrown)
  /\ UNCHANGED <<formVars, loading, authUser, notifications, notified, loginCall>>

\* signOut rejects with `thrown`: logout() logs it and rethrows it.
LogoutRejects(thrown) ==
  /\ logoutCall.state = "pending"
  /\ logoutCall' = Call("rejected", thrown)
  /\ ev' = Ev("logout", thrown)
  /\ UNCHANGED <<formVars, currentUser, loading, authUser, notifications, notified,
                 loginCall, cachedUser>>

-----------------------------------------------------------------------------
(* The trip form under a loaded AuthProvider *)

\* The provider's session changes and AuthProvider's callback runs.
SessionChange(user) ==
  /\ user # authUser
  /\ authUser' = user
  /\ OnAuthStateChanged(user)
  /\ sent' = <<>>
  /\ UNCHANGED <<variant, tripName, destination, stops, newStop, isLoading, error,
                 suggestions, currentLocation, shareableLink, showShareView, geo,
                 inflight, closed, navigatedTo,
                 notifications, loginCall, logoutCall, cachedUser>>

\* useState initial values of TripModal
FormInit ==
  /\ tripName = <<>> /\ destination = <<>> /\ stops = <<>> /\ newStop = <<>>
  /\ isLoading = FALSE /\ error = "" /\ suggestions = <<>>
  /\ currentLocation = Null
  /\ shareableLink = "" /\ showShareView = FALSE
  /\ inflight = <<>> /\ closed = FALSE /\ navigatedTo = Null /\ sent = <<>>

\* TripModal has just mounted (either variant) below an AuthProvider that has
\* received its first notification; the mount effect has asked for the position
\* when navigator.geolocation exists.
Init ==
  /\ variant \in {"http", "delegated"}
  /\ FormInit
  /\ geo \in {"pending", "unsupported"}
  /\ authUser \in FirebaseUsers \cup {Null}
  /\ currentUser = (IF authUser # Null THEN Snapshot(authUser) ELSE Null)
  /\ loading = FALSE /\ notified = TRUE /\ notifications = <<>>
  /\ loginCall = Call("idle", Null) /\ logoutCall = Call("idle", Null)
  /\ cachedUser = FALSE
  /\ ev = Ev("mount", Null)

\* The events of the rendered form: an input, a suggestion or a button is there
\* to be used while the form is shown, the submit button while it is not disabled.
TypeTripName == FormShown /\ \E value \in NameInputs : SetTripName(value)

TypeDestination == FormShown /\ \E value \in DestInputs : handleDestinationChange(value)

ClickSuggestion ==
  FormShown /\ \E k \in DOMAIN suggestions : handleSuggestionClick(suggestions[k])

TypeNewStop == FormShown /\ \E value \in StopInputs : SetNewStop(value)

ClickAddStop == FormShown /\ Len(stops) < MaxStops /\ handleAddStop

\* handleRemoveStop is also tried on positions past the end of the list.
ClickRemoveStop == FormShown /\ \E index \in 0..MaxStops : handleRemoveStop(index)

\* A submit button without its disabled attribute.
SubmitNeverDisabled == FALSE

\* disabled={isLoading}
SubmitDisabled == isLoading

Submit == FormShown /\ ~SubmitDisabled /\ handleSubmit

ClickClose == FormShown /\ Close

FetchSettles ==
  \E i \in DOMAIN inflight :
    (\E why \in {"rejected", "not ok"} : FetchFails(i, why)) \/ FetchOk(i)

JsonSettles ==
  \E i \in DOMAIN inflight : JsonFails(i) \/ \E body \in Bodies : JsonOk(i, body)

CreateTripSettles ==
  \E i \in DOMAIN inflight :
    CreateTripFails(i) \/ \E tripId \in TripIds : CreateTripOk(i, tripId)

GeoSettles == GeoError \/ \E position \in Positions : GeoSuccess(position)

\* The promises a suspended handleSubmit waits for.
Completion == FetchSettles \/ JsonSettles \/ CreateTripSettles

SessionChanges == \E user \in FirebaseUsers \cup {Null} : SessionChange(user)

Next ==
  \/ TypeTripName
  \/ TypeDestination
  \/ ClickSuggestion
  \/ TypeNewStop
  \/ ClickAddStop
  \/ ClickRemoveStop
  \/ Submit
  \/ ClickClose
  \/ FetchSettles
  \/ JsonSettles
  \/ CreateTripSettles
  \/ GeoSettles
  \/ SessionChanges

Spec == Init /\ [][Next]_vars

\* Every pending promise settles: the request of a suspended handleSubmit is
\* answered or fails, and the continuation runs.
Fairness == WF_vars(Completion)

SpecLive == Spec /\ Fairness

-----------------------------------------------------------------------------
(* The trip form with handleSubmit invoked past the submit button *)

\* handleSubmit is invoked whatever the submit button shows: the handler itself
\* has no test of isLoading.
InvokeSubmit == FormShown /\ Len(inflight) < MaxInflight /\ handleSubmit

NextDirect ==
  \/ TypeTripName
  \/ TypeDestination
  \/ ClickSuggestion
  \/ TypeNewStop
  \/ ClickAddStop
  \/ ClickRemoveStop
  \/ Submit
  \/ InvokeSubmit
  \/ ClickClose
  \/ FetchSettles
  \/ JsonSettles
  \/ CreateTripSettles
  \/ GeoSettles
  \/ SessionChanges

SpecDirect == Init /\ [][NextDirect]_vars

-----------------------------------------------------------------------------
(* AuthProvider from its construction *)

\* AuthProvider has just been constructed and has subscribed; the provider owes
\* it the notification of the restored session.
InitAuth ==
  /\ variant = "http"
  /\ FormInit
  /\ geo = "unmounted"
  /\ currentUser = Null /\ loading = TRUE /\ notified = FALSE
  /\ authUser \in FirebaseUsers \cup {Null}
  /\ notifications = <<authUser>>
  /\ loginCall = Call("idle", Null) /\ logoutCall = Call("idle", Null)
  /\ cachedUser \in BOOLEAN
  /\ ev = Ev("AuthProvider", Null)

NextAuth ==
  \/ Notify
  \/ Login
  \/ \E user \in FirebaseUsers : SignInDone(user)
  \/ LoginResolves
  \/ \E thrown \in SignInErrors : LoginRejects(thrown)
  \/ Logout
  \/ SignOutDone
  \/ LogoutResolves
  \/ \E thrown \in SignOutErrors : LogoutRejects(thrown)

SpecAuth == InitAuth /\ [][NextAuth]_vars

-----------------------------------------------------------------------------
(* Properties *)

\* The text is empty or consists of spaces only.
Blank(s) == \A k \in DOMAIN s : s[k] = " "

\* t is s without its leading and trailing spaces.
IsTrimmed(t, s) ==
  /\ t # <<>> => (t[1] # " " /\ t[Len(t)] # " ")
  /\ \E lead \in 0..Len(s) :
       /\ lead + Len(t) <= Len(s)
       /\ SubSeq(s, lead + 1, lead + Len(t)) = t
       /\ \A k \in DOMAIN s : (k <= lead \/ k > lead + Len(t)) => s[k] = " "

\* The last step was handleSubmit; it leaves the draft, the position and the
\* session as it read them.
Submitted == ev.op = "handleSubmit"

MissingField == tripName = <<>> \/ destination = <<>> \/ currentLocation = Null

\* C1: handleSubmit on a draft whose name is empty, whose destination is empty or
\* whose origin position is null issues no creation request (nothing is sent, no
\* invocation is suspended), sets error to the non-empty validation message and
\* leaves isLoading false.
C1_InvalidSubmitSendsNothing ==
  [][ (ev'.op = "handleSubmit" /\ MissingField) =>
        /\ sent' = <<>>
        /\ inflight' = inflight
        /\ error' = ValidationMessage /\ error' # ""
        /\ isLoading' = isLoading /\ ~isLoading' ]_vars

C1_Witness ==
  /\ Submitted /\ tripName = <<>> /\ destination # <<>> /\ currentLocation # Null
  /\ error = ValidationMessage /\ inflight = <<>> /\ ~isLoading

\* A suspended handleSubmit finishes in this step.
Resolves == Len(inflight') < Len(inflight)

\* The step shows the share view or navigates to the created trip.
Succeeds == showShareView' # showShareView \/ navigatedTo' # navigatedTo

\* C2: every submission that passed validation eventually resolves; when it does
\* isLoading is false, error is empty on success and is the non-empty generic
\* message on every failure; the submit control is disabled only while a
\* submission is pending, so it is never left disabled for good.
C2_SubmissionResolves ==
  /\ [][ Resolves =>
           /\ ~isLoading'
           /\ Succeeds => error' = ""
           /\ ~Succeeds => (error' = FailedMessage /\ error' # "") ]_vars
  /\ [](isLoading => inflight # <<>>)
  /\ (inflight # <<>>) ~> (inflight = <<>> /\ ~isLoading)

C2_Witness ==
  /\ ev.op = "fetch" /\ ev.arg = "not ok"
  /\ error = FailedMessage /\ ~isLoading /\ inflight = <<>>

\* createdBy as the claim states it.
ExpectedCreatedBy ==
  IF currentUser # Null THEN currentUser.uid
  ELSE IF variant = "http" THEN "" ELSE "user123"

\* C3: one handleSubmit on a draft with a name, a destination and a resolved
\* origin issues exactly one creation request: its stops are the draft's stops in
\* the draft's order, its origin location is currentLocation, its createdBy is the
\* session uid or the variant's anonymous fallback, and in the delegated variant
\* participants is exactly [createdBy]; no other step issues a request.
C3_OneRequestFromDraft ==
  /\ ~Submitted => sent = <<>>
  /\ (Submitted /\ ~MissingField) =>
       /\ Len(sent) = 1
       /\ Len(sent[1].stops) = Len(stops)
       /\ \A k \in DOMAIN stops : sent[1].stops[k].name = stops[k]
       /\ sent[1].origin.location = currentLocation
       /\ sent[1].createdBy = ExpectedCreatedBy
       /\ variant = "delegated" => sent[1].participants = <<ExpectedCreatedBy>>

C3_Witness ==
  /\ Submitted /\ Len(sent) = 1
  /\ Len(stops) = 2 /\ stops[1] # stops[2]
  /\ currentUser # Null /\ variant = "delegated"

\* logout() settles in this step, one way or the other.
LogoutSettles ==
  logoutCall.state \in {"pending", "signedOut"} /\ logoutCall'.state \in {"resolved", "rejected"}

\* C4 as stated: whenever a logout() has settled, also by a failed sign-out,
\* currentUser is null.
C4_LogoutAlwaysClears == [][ LogoutSettles => currentUser' = Null ]_vars

\* C4, amended: a logout() whose sign-out succeeds leaves currentUser null when it
\* resolves, whatever currentUser was and whichever notifications were delivered in
\* between; a logout() whose sign-out fails rejects and leaves currentUser as it was.
C4_LogoutClearsOnSuccess ==
  [][ LogoutSettles =>
        /\ logoutCall'.state = "resolved" => currentUser' = Null
        /\ logoutCall'.state = "rejected" => currentUser' = currentUser ]_vars

\* logout() has just resolved while the sign-out's own notification is still
\* queued behind nothing: the session was cleared by logout itself.
C4_Witness ==
  /\ ev.op = "logout" /\ ev.arg = "resolved"
  /\ currentUser = Null /\ notified /\ notifications = <<Null>>
  /\ loginCall.state = "resolved"

\* C5: AuthProvider starts with loading true and renders no children while it is;
\* loading becomes false only in the delivery of the first onAuthStateChanged
\* notification, never returns to true, and no login() unlocks rendering.
C5_LoadingGate ==
  /\ (loading = TRUE /\ ChildrenRendered = FALSE)
  /\ [][ /\ (loading /\ ~loading') => (ev'.op = "onAuthStateChanged" /\ ~notified /\ notified')
         /\ ~loading => ~loading'
         /\ ev'.op = "login" => loading' = loading ]_vars
  /\ [](ChildrenRendered => (notified /\ ~loading))

\* login() has resolved and set the session before any notification was delivered.
C5_Witness ==
  /\ loginCall.state = "resolved" /\ currentUser # Null
  /\ ~notified /\ loading /\ ~ChildrenRendered

\* C6: handleAddStop on an empty or blank newStop changes neither stops nor newStop;
\* on any other text it appends the trimmed text as the last entry, keeps the
\* earlier entries in place, and empties newStop.
C6_AddStop ==
  [][ ev'.op = "handleAddStop" =>
        IF Blank(newStop)
        THEN stops' = stops /\ newStop' = newStop
        ELSE /\ Len(stops') = Len(stops) + 1
             /\ \A k \in DOMAIN stops : stops'[k] = stops[k]
             /\ IsTrimmed(stops'[Len(stops')], newStop)
             /\ stops'[Len(stops')] # <<>>
             /\ newStop' = <<>> ]_vars

\* Two adds of the same text: the duplicate is kept after the first entry.
C6_Witness ==
  /\ ev.op = "handleAddStop"
  /\ stops = << <<"a">>, <<"a">> >> /\ newStop = <<>>

\* C7: handleRemoveStop(i) with i a position of the list drops the entry at that
\* position and nothing else, keeping the order of the rest; any other i leaves
\* stops as it is; name, destination, error and isLoading are untouched.
C7_RemoveStop ==
  [][ ev'.op = "handleRemoveStop" =>
        /\ IF ev'.arg \in 0..(Len(stops) - 1)
           THEN /\ Len(stops') = Len(stops) - 1
                /\ \A k \in DOMAIN stops' :
                     stops'[k] = stops[IF k <= ev'.arg THEN k ELSE k + 1]
           ELSE stops' = stops
        /\ UNCHANGED <<tripName, destination, error, isLoading>> ]_vars

\* Position 0 was removed from a list of two.
C7_Witness ==
  /\ ev.op = "handleRemoveStop" /\ ev.arg = 0
  /\ Len(stops) = 1

NewYork == <<"N", "e", "w", " ", "Y", "o", "r", "k">>
California == <<"C", "a", "l", "i", "f", "o", "r", "n", "i", "a">>
Texas == <<"T", "e", "x", "a", "s">>

\* C8: after a destination change the suggestions are empty for an empty or blank
\* text, and otherwise exactly the New York, California and Texas candidates with
\* place ids 1, 2, 3, each description containing the typed text; choosing a
\* suggestion of the list makes its description the destination and empties the list.
C8_Suggestions ==
  [][ /\ ev'.op = "handleDestinationChange" =>
           /\ destination' = ev'.arg
           /\ IF Blank(ev'.arg)
              THEN suggestions' = <<>>
              ELSE /\ Len(suggestions') = 3
                   /\ \A k \in 1..3 : Includes(suggestions'[k].description, ev'.arg)
                   /\ Includes(suggestions'[1].description, NewYork)
                   /\ Includes(suggestions'[2].description, California)
                   /\ Includes(suggestions'[3].description, Texas)
                   /\ <<suggestions'[1].place_id, suggestions'[2].place_id,
                        suggestions'[3].place_id>> = <<"1", "2", "3">>
      /\ ev'.op = "handleSuggestionClick" =>
           /\ \E k \in DOMAIN suggestions : destination' = suggestions[k].description
           /\ suggestions' = <<>> ]_vars

C8_Witness ==
  /\ ev.op = "handleDestinationChange" /\ ev.arg = <<"a">>
  /\ Len(suggestions) = 3

\* The draft fields an edit changes.
draft == <<tripName, destination, stops>>

\* The form's state machine: a submission is pending, or one has succeeded.
Submitting == isLoading
Success == showShareView \/ navigatedTo # Null

\* C9 as stated: the draft changes only in Editing, never while a submission is
\* in flight nor after Success.
C9_EditsOnlyWhileEditing == [][ (Submitting \/ Success) => draft' = draft ]_vars

\* C9, amended: after Success (the share view has replaced the form, or the form
\* was closed and the trip page opened) no edit changes the draft; while a
\* submission is in flight the inputs are still enabled and an edit does change it.
C9_NoEditAfterSuccess == [][ Success => draft' = draft ]_vars

C9_Witness ==
  /\ Success /\ variant = "http" /\ showShareView /\ ~isLoading
  /\ tripName # <<>> /\ Len(stops) = 2

\* C10: a handleSubmit that passes validation sets isLoading and clears error, and
\* both stay so for as long as its request is pending.
C10_SubmittingState ==
  /\ (Submitted /\ ~MissingField) => (isLoading /\ error = "" /\ inflight # <<>>)
  /\ inflight # <<>> => (isLoading /\ error = "" /\ SubmitDisabled)

\* The request is half way (the response arrived, its body is being parsed)
\* and the user has typed meanwhile.
C10_Witness ==
  /\ inflight # <<>> /\ inflight[1].await = "json"
  /\ ev.op = "setTripName" /\ isLoading /\ error = ""

\* C11: the position is asked for once, on mount. When the request fails, error
\* becomes the location message and currentLocation is null from then on: setting
\* the name, the destination and adding a stop still change the draft, but every
\* handleSubmit ends in the validation error, sends nothing and leaves nothing
\* pending. When it succeeds, currentLocation is set by that one callback and
\* never changes again.
C11_Geolocation ==
  /\ [](geo = "failed" => (currentLocation = Null /\ inflight = <<>> /\ ~isLoading))
  /\ [][ /\ geo # "pending" => geo' = geo
         /\ ev'.op = "geoError" =>
              (geo = "pending" /\ error' = LocationMessage /\ currentLocation' = Null)
         /\ (geo = "failed" /\ ev'.op = "setTripName") => tripName' = ev'.arg
         /\ (geo = "failed" /\ ev'.op = "handleDestinationChange") =>
              destination' = ev'.arg
         /\ (geo = "failed" /\ ev'.op = "handleAddStop" /\ ~Blank(newStop)) =>
              (Len(stops') = Len(stops) + 1 /\ IsTrimmed(stops'[Len(stops')], newStop))
         /\ (geo = "failed" /\ ev'.op = "handleRemoveStop" /\ ev'.arg < Len(stops)) =>
              Len(stops') = Len(stops) - 1
         /\ (geo = "failed" /\ ev'.op = "handleSubmit") =>
              (error' = ValidationMessage /\ sent' = <<>> /\ UNCHANGED inflight
                 /\ ~isLoading')
         /\ ev'.op = "geoSuccess" =>
              (geo = "pending" /\ currentLocation = Null /\ currentLocation' # Null)
         /\ currentLocation # Null => currentLocation' = currentLocation
       ]_vars

\* The request failed, the user filled in the whole draft and submitted it.
C11_Witness ==
  /\ geo = "failed" /\ currentLocation = Null
  /\ Submitted /\ error = ValidationMessage /\ sent = <<>>
  /\ tripName # <<>> /\ destination # <<>> /\ stops # <<>>

\* At most one invocation is suspended, and isLoading tells whether one is.
OneAtATime == Len(inflight) <= 1 /\ (isLoading <=> inflight # <<>>)

\* C12: handleSubmit has no test of isLoading: every invocation on a valid draft
\* sends a request and suspends, also while another one is pending, so that two
\* invocations before the first resolves leave two requests in flight. Only the
\* disabled submit control excludes that: the form starts with nothing in flight,
\* and every step other than a handleSubmit invoked while the control is disabled
\* keeps at most one request in flight (with isLoading telling whether there is
\* one).
C12_MutualExclusion ==
  /\ OneAtATime
  /\ [][ /\ (ev'.op = "handleSubmit" /\ ~MissingField) =>
              (Len(inflight') = Len(inflight) + 1 /\ Len(sent') = 1 /\ isLoading')
         /\ (OneAtATime /\ ~(ev'.op = "handleSubmit" /\ SubmitDisabled)) => OneAtATime'
       ]_vars

\* The second of two invocations has just sent its request while the first is
\* still pending.
C12_Witness ==
  /\ Submitted /\ Len(sent) = 1 /\ Len(inflight) = 2 /\ isLoading
  /\ inflight[1].await = FirstAwait /\ inflight[2].await = FirstAwait

\* C13: in the direct-HTTP variant the share view appears only when the body of
\* a response with a success status has been parsed, and shareableLink is then
\* that body's shareLink. A request that fails, a response without a success
\* status or a body that cannot be parsed leaves showShareView false and
\* shareableLink as it was and sets the generic error. Once showShareView is
\* true it stays true, the link stays, and the form sends no further request.
C13_ShareView ==
  /\ [](showShareView => (variant = "http" /\ inflight = <<>> /\ ~isLoading))
  /\ [](~showShareView => shareableLink = "")
  /\ [][ /\ (showShareView' /\ ~showShareView) =>
              /\ inflight # <<>> /\ inflight[1].await = "json"
              /\ ev'.op = "json"
              /\ shareableLink' = ev'.arg.shareLink
         /\ (variant = "http" /\ Resolves /\ ~Succeeds) =>
              /\ ~showShareView'
              /\ shareableLink' = shareableLink
              /\ error' = FailedMessage
         /\ showShareView =>
              (showShareView' /\ shareableLink' = shareableLink /\ sent' = <<>>
                 /\ UNCHANGED inflight)
       ]_vars

\* The share view shows the link of the second of the possible responses, and
\* the session has changed since.
C13_Witness ==
  /\ showShareView /\ shareableLink = "https://mapsync/t2" /\ error = ""
  /\ ev.op = "onAuthStateChanged" /\ tripName # <<>> /\ destination # <<>>

\* The outcomes of login() and logout(), and the notifications by their content.
LoginFailed == ev'.op = "login" /\ ev'.arg \in SignInErrors
LoginSucceeded == ev'.op = "login" /\ ev'.arg = "resolved"
LogoutFailed == ev'.op = "logout" /\ ev'.arg \in SignOutErrors
LogoutSucceeded == ev'.op = "logout" /\ ev'.arg = "resolved"
NullNotification == ev'.op = "onAuthStateChanged" /\ ev'.arg = Null
UserNotification == ev'.op = "onAuthStateChanged" /\ ev'.arg # Null

\* A failed sign-in makes login() reject with the provider's error and leaves
\* currentUser and loading alone; a failed sign-out makes logout() reject with the
\* provider's error and leaves currentUser and the cached mirror alone.
FailuresPropagate ==
  /\ LoginFailed =>
       (loginCall' = Call("rejected", ev'.arg) /\ UNCHANGED <<currentUser, loading>>)
  /\ LogoutFailed =>
       (logoutCall' = Call("rejected", ev'.arg) /\ UNCHANGED <<currentUser, cachedUser>>)

\* C14 as stated: failures propagate and leave the session alone; currentUser
\* becomes a user's snapshot only in a login() whose sign-in succeeded; it is
\* cleared, and the cached mirror removed, only in a logout() whose sign-out
\* succeeded or in a null notification.
C14_OnlySignInSets ==
  [][ /\ FailuresPropagate
      /\ (currentUser' # currentUser /\ currentUser' # Null) =>
           (LoginSucceeded /\ currentUser' = Snapshot(loginCall.result))
      /\ (currentUser # Null /\ currentUser' = Null) =>
           (LogoutSucceeded \/ NullNotification)
      /\ (cachedUser /\ ~cachedUser') => (LogoutSucceeded \/ NullNotification)
    ]_vars

\* C14, amended: failures propagate and leave the session alone; currentUser
\* becomes a user's snapshot only in a login() whose sign-in succeeded or in a
\* notification that carries a user (the restored session's, for one); it is
\* cleared only in a logout() whose sign-out succeeded or in a null notification;
\* the cached mirror is removed only in a logout() whose sign-out succeeded, a
\* null notification leaves it.
C14_FailuresLeaveSession ==
  [][ /\ FailuresPropagate
      /\ (currentUser' # currentUser /\ currentUser' # Null) =>
           \/ LoginSucceeded /\ currentUser' = Snapshot(loginCall.result)
           \/ UserNotification /\ currentUser' = Snapshot(ev'.arg)
      /\ (currentUser # Null /\ currentUser' = Null) =>
           (LogoutSucceeded \/ NullNotification)
      /\ (cachedUser /\ ~cachedUser') => LogoutSucceeded
      /\ NullNotification => UNCHANGED cachedUser
    ]_vars

\* A sign-in and then a sign-out have both failed under a restored session: the
\* user and the cached mirror are still there.
C14_Witness ==
  /\ ev.op = "logout" /\ ev.arg \in SignOutErrors
  /\ logoutCall = Call("rejected", ev.arg)
  /\ loginCall.state = "rejected" /\ loginCall.result \in SignInErrors
  /\ currentUser # Null /\ cachedUser /\ ~loading

====
